---- MODULE Spec2Model ----
(***************************************************************************)
(* display-link: a display-synchronised timer.  One DisplayLink handle is  *)
(* built over one of two platform backends:                                *)
(*   macos  src/src/macos.rs   local is_paused flag + CVDisplayLink        *)
(*                             start/stop, callback `render`               *)
(*   ios    src/src/ios.rs     CADisplayLink added to the run loop at      *)
(*                             construction, native paused flag, callback  *)
(*                             `run_callback` with a lazily set anchor     *)
(* Times: an f64 number of seconds is a record [cls, ns]; cls "fin" holds  *)
(* the value in whole nanosecond ticks, "inf"/"nan" are the non-finite     *)
(* values (ns holds the sign), "huge" a finite value whose nanosecond      *)
(* count is at least 2^64 * 10^9, "vast" a finite value whose nanosecond   *)
(* count is beyond the f64 range.  An Instant is a tick count.             *)
(* Spec is one handle over either backend; SpecConv applies the duration   *)
(* conversion of ios.rs to single inputs; SpecMulti is several ios handles *)
(* of several closure types in one process.                                *)
(***************************************************************************)
EXTENDS Integers, Sequences, FiniteSets, TLC

VARIABLES
    platform,       \* "macos" | "ios": which cfg(target_os) backend is built
    debug_build,    \* whether debug_assert! is compiled in
    handle,         \* "absent" | "live" | "dropped"
    is_paused,      \* macos.rs DisplayLink.is_paused
    link,           \* the native timer object behind RawDisplayLink
    cb,             \* the heap callback state (ios Callback<F>, macos Box<F>)
    class_registered, \* ios CALLBACK_CLASS_CREATOR has run
    calls,          \* backend calls made by the last facade operation, in order
    last_op,        \* the last facade operation
    last_result,    \* what it returned
    pre_paused,     \* is_paused() just before it
    last_ok,        \* the last successful transition: "none" | "pause" | "resume"
    trail,          \* the last TrailLen events (facade calls and firings)
    fired,          \* trampoline entries so far
    invoked,        \* user callback invocations so far
    last_fire,      \* the inputs and outcome of the last firing
    aborted,        \* process::abort() was reached (or the process crashed)
    conv,           \* SpecConv: the last from_secs_f64 call, input and result
    holders,        \* SpecMulti: per handle, its holder object and Callback<F>
    class_method,   \* SpecMulti: the F of the run_callback::<F> the class holds
    once_runs,      \* SpecMulti: times the CALLBACK_CLASS_CREATOR closure ran
    multi_fire      \* SpecMulti: the last firing

vars == <<platform, debug_build, handle, is_paused, link, cb, class_registered,
          calls, last_op, last_result, pre_paused, last_ok, trail, fired,
          invoked, last_fire, aborted, conv, holders, class_method, once_runs,
          multi_fire>>

\* the state of one handle, its backend and its callback state
handle_vars == <<platform, debug_build, handle, is_paused, link, cb,
                 class_registered, calls, last_op, last_result, pre_paused,
                 last_ok, trail, fired, invoked, last_fire, aborted>>

conv_vars == <<conv>>

multi_vars == <<holders, class_method, once_runs, multi_fire>>

\* ---------------------------------------------------------------- bounds

MaxFires == 3

TrailLen == 3

\* SpecConv: finite inputs lie within ConvSpan ticks of each base value
ConvSpan == 12

\* SpecMulti: handles alive in the process
MaxHandles == 2

\* ------------------------------------------------------------- f64 values

F64Fin(k) == [cls |-> "fin", ns |-> k]

F64NaN == [cls |-> "nan", ns |-> 0]

F64Inf(sign) == [cls |-> "inf", ns |-> sign]

\* A finite value too large for a Duration: 2^65 seconds (sign = 1) or its
\* negative (sign = -1).  Adding or subtracting the tick values used here
\* does not change an f64 of that magnitude.
F64Huge(sign) == [cls |-> "huge", ns |-> sign]

\* A finite value whose product with 10^9 exceeds f64::MAX: 2^1000 seconds
\* (sign = 1) or its negative (sign = -1).
F64Vast(sign) == [cls |-> "vast", ns |-> sign]

F64Neg(a) ==
    IF a.cls = "nan" THEN a ELSE [cls |-> a.cls, ns |-> 0 - a.ns]

\* a + b on f64
F64Add(a, b) ==
    IF a.cls = "nan" \/ b.cls = "nan" THEN F64NaN
    ELSE IF a.cls = "inf" /\ b.cls = "inf"
         THEN (IF a.ns = b.ns THEN a ELSE F64NaN)
    ELSE IF a.cls = "inf" THEN a
    ELSE IF b.cls = "inf" THEN b
    ELSE IF a.cls = "vast" /\ b.cls = "vast"
         THEN (IF a.ns = b.ns THEN a ELSE F64Fin(0))
    ELSE IF a.cls = "vast" THEN a
    ELSE IF b.cls = "vast" THEN b
    ELSE IF a.cls = "huge" /\ b.cls = "huge"
         THEN (IF a.ns = b.ns THEN a ELSE F64Fin(0))
    ELSE IF a.cls = "huge" THEN a
    ELSE IF b.cls = "huge" THEN b
    ELSE F64Fin(a.ns + b.ns)

\* a - b on f64
F64Sub(a, b) == F64Add(a, F64Neg(b))

\* a <= b on f64 (false when either is NaN)
F64Le(a, b) ==
    IF a.cls = "nan" \/ b.cls = "nan" THEN FALSE
    ELSE IF a.cls = "inf" /\ b.cls = "inf" THEN a.ns <= b.ns
    ELSE IF a.cls = "inf" THEN a.ns < 0
    ELSE IF b.cls = "inf" THEN b.ns > 0
    ELSE IF a.cls = "vast" /\ b.cls = "vast" THEN a.ns <= b.ns
    ELSE IF a.cls = "vast" THEN a.ns < 0
    ELSE IF b.cls = "vast" THEN b.ns > 0
    ELSE IF a.cls = "huge" /\ b.cls = "huge" THEN a.ns <= b.ns
    ELSE IF a.cls = "huge" THEN a.ns < 0
    ELSE IF b.cls = "huge" THEN b.ns > 0
    ELSE a.ns <= b.ns

\* ------------------------------------------------ Duration and Instant

NANOS_PER_SEC == 1000000000

NoDuration == [secs |-> 0, nanos |-> 0]

\* secs * (NANOS_PER_SEC as f64): a value is held as its nanosecond count
\* already; the product of a vast value is beyond f64::MAX, an infinity.
F64ToNanos(secs) ==
    IF secs.cls = "vast" THEN F64Inf(secs.ns) ELSE secs

\* from_secs_f64 without the test for a negative value
from_secs_f64_no_underflow(secs) ==
    LET nanos == F64ToNanos(secs)
    IN  IF nanos.cls \in {"inf", "nan"}
        THEN [fault |-> "non_finite", dur |-> NoDuration]
        ELSE IF nanos.cls = "huge" /\ nanos.ns > 0
        THEN [fault |-> "overflow", dur |-> NoDuration]
        ELSE [fault |-> "none",
              dur   |-> [secs  |-> nanos.ns \div NANOS_PER_SEC,
                         nanos |-> nanos.ns % NANOS_PER_SEC]]

\* from_secs_f64 that keeps the whole nanosecond count as the sub-second part
from_secs_f64_whole_nanos(secs) ==
    LET nanos == F64ToNanos(secs)
    IN  IF nanos.cls \in {"inf", "nan"}
        THEN [fault |-> "non_finite", dur |-> NoDuration]
        ELSE IF nanos.cls = "huge" /\ nanos.ns > 0
        THEN [fault |-> "overflow", dur |-> NoDuration]
        ELSE IF nanos.ns < 0
        THEN [fault |-> "underflow", dur |-> NoDuration]
        ELSE [fault |-> "none",
              dur   |-> [secs  |-> nanos.ns \div NANOS_PER_SEC,
                         nanos |-> nanos.ns]]

\* ios.rs from_secs_f64: the product, the three panics in the code's order,
\* then the split of the nanosecond count into whole seconds and the
\* remainder.
from_secs_f64(secs) ==
    LET nanos == F64ToNanos(secs)
    IN  IF nanos.cls \in {"inf", "nan"}
        THEN [fault |-> "non_finite", dur |-> NoDuration]
        ELSE IF nanos.cls = "huge" /\ nanos.ns > 0
        THEN [fault |-> "overflow", dur |-> NoDuration]
        ELSE IF nanos.ns < 0
        THEN [fault |-> "underflow", dur |-> NoDuration]
        ELSE [fault |-> "none",
              dur   |-> [secs  |-> nanos.ns \div NANOS_PER_SEC,
                         nanos |-> nanos.ns % NANOS_PER_SEC]]

DurationTicks(d) == d.secs * NANOS_PER_SEC + d.nanos

\* Instant - Duration: panics when the result would precede the clock's origin
InstantSub(i, d) ==
    IF DurationTicks(d) > i
    THEN [fault |-> "instant_underflow", instant |-> 0]
    ELSE [fault |-> "none", instant |-> i - DurationTicks(d)]

\* Instant + Duration
InstantAdd(i, d) == i + DurationTicks(d)

\* ------------------------------------------------------ native timer object

\* No native object yet.  running: CVDisplayLink is started (macos);
\* paused / in_run_loop: CADisplayLink's paused property and its run-loop
\* registration (ios); released: the owning reference was given up.
NoLink ==
    [created |-> FALSE, callback_set |-> FALSE, running |-> FALSE,
     paused |-> FALSE, in_run_loop |-> FALSE, released |-> FALSE]

\* macos RawDisplayLink::new(): a stopped CVDisplayLink
cv_new == [NoLink EXCEPT !.created = TRUE]

\* macos RawDisplayLink::set_output_callback(render::<F>, raw)
cv_set_output_callback(l) == [l EXCEPT !.callback_set = TRUE]

\* macos RawDisplayLink::start()
cv_start(l) == [l EXCEPT !.running = TRUE]

\* macos RawDisplayLink::stop()
cv_stop(l) == [l EXCEPT !.running = FALSE]

\* macos Drop for RawDisplayLink: the native object is released
cv_release(l) == [l EXCEPT !.released = TRUE, !.running = FALSE]

\* ios RawDisplayLink::with_target_selector: a CADisplayLink, not paused,
\* not yet on any run loop
with_target_selector == [NoLink EXCEPT !.created = TRUE]

\* ios DisplayLinkRef::set_paused(flag)
ca_set_paused(l, flag) == [l EXCEPT !.paused = flag]

\* ios DisplayLinkRef::is_paused()
ca_is_paused(l) == l.paused

\* ios DisplayLinkRef::add_to_current()
add_to_current(l) == [l EXCEPT !.in_run_loop = TRUE]

\* ios drop of the RawDisplayLink field: the owning reference is given up;
\* the run loop keeps its own reference, only invalidate() removes the link
\* from it, and nothing calls invalidate()
ca_release(l) == [l EXCEPT !.released = TRUE]

\* The registrations through which the backend can now enter the trampoline.
LiveRegistrations ==
    IF platform = "macos"
    THEN {r \in {"output_callback"} :
            link.created /\ link.callback_set /\ link.running /\ ~link.released}
    ELSE {r \in {"run_loop_target"} :
            link.created /\ link.in_run_loop /\ ~link.paused}

\* ------------------------------------------------------------ callback state

NoAnchor == [set |-> FALSE, os |-> F64Fin(0), rust |-> 0]

SomeAnchor(start_os, start_rust) ==
    [set |-> TRUE, os |-> start_os, rust |-> start_rust]

NoCallback == [alive |-> FALSE, start_time |-> NoAnchor]

\* ios.rs Callback { start_time: None, f: callback } (macos: Box::new(callback))
NewCallback == [alive |-> TRUE, start_time |-> NoAnchor]

NoFire ==
    [t |-> F64Fin(0), duration |-> F64Fin(0), os_cur_time |-> F64Fin(0),
     rust_cur_time |-> 0, first |-> FALSE, fault |-> "none",
     invoked |-> FALSE, instant |-> 0, paused |-> FALSE, uaf |-> FALSE,
     exit |-> "none"]

\* ------------------------------------------------------------- trampolines

\* start_time_of that captures a fresh anchor on every firing
start_time_of_always_fresh(start_time, t, os_cur_time, rust_cur_time, debug) ==
    LET d == from_secs_f64(F64Sub(os_cur_time, t))
    IN  IF d.fault # "none"
        THEN [fault |-> d.fault, start_time |-> start_time]
        ELSE LET start_rust == InstantSub(rust_cur_time, d.dur)
             IN  IF start_rust.fault # "none"
                 THEN [fault |-> start_rust.fault, start_time |-> start_time]
                 ELSE [fault |-> "none",
                       start_time |-> SomeAnchor(t, start_rust.instant)]

\* start_time_of that anchors at Instant::now() without the offset between
\* the current media time and the reported timestamp
start_time_of_no_offset(start_time, t, os_cur_time, rust_cur_time, debug) ==
    IF start_time.set
    THEN [fault |-> "none", start_time |-> start_time]
    ELSE IF debug /\ ~F64Le(t, os_cur_time)
    THEN [fault |-> "debug_assert", start_time |-> start_time]
    ELSE LET d == from_secs_f64(F64Sub(os_cur_time, t))
         IN  IF d.fault # "none"
             THEN [fault |-> d.fault, start_time |-> start_time]
             ELSE [fault |-> "none", start_time |-> SomeAnchor(t, rust_cur_time)]

\* ios.rs run_callback, lines 82-95: the anchor in use for this firing
start_time_of(start_time, t, os_cur_time, rust_cur_time, debug) ==
    IF start_time.set
    THEN [fault |-> "none", start_time |-> start_time]
    ELSE IF debug /\ ~F64Le(t, os_cur_time)
    THEN [fault |-> "debug_assert", start_time |-> start_time]
    ELSE LET d == from_secs_f64(F64Sub(os_cur_time, t))
         IN  IF d.fault # "none"
             THEN [fault |-> d.fault, start_time |-> start_time]
             ELSE LET start_rust == InstantSub(rust_cur_time, d.dur)
                  IN  IF start_rust.fault # "none"
                      THEN [fault |-> start_rust.fault, start_time |-> start_time]
                      ELSE [fault |-> "none",
                            start_time |-> SomeAnchor(t, start_rust.instant)]

\* run_callback that translates the reported timestamp without adding the
\* frame duration
run_callback_no_duration(start_time, t, duration, os_cur_time, rust_cur_time, f_panics, debug) ==
    LET a == start_time_of(start_time, t, os_cur_time, rust_cur_time, debug)
    IN  IF a.fault # "none"
        THEN [fault |-> a.fault, start_time |-> a.start_time,
              invoked |-> FALSE, instant |-> 0]
        ELSE LET diff == from_secs_f64(F64Sub(t, a.start_time.os))
             IN  IF diff.fault # "none"
                 THEN [fault |-> diff.fault, start_time |-> a.start_time,
                       invoked |-> FALSE, instant |-> 0]
                 ELSE [fault |-> IF f_panics THEN "callback_panic" ELSE "none",
                       start_time |-> a.start_time,
                       invoked |-> TRUE,
                       instant |-> InstantAdd(a.start_time.rust, diff.dur)]

\* ios.rs run_callback, the closure given to catch_unwind (lines 75-101)
run_callback(start_time, t, duration, os_cur_time, rust_cur_time, f_panics, debug) ==
    LET a == start_time_of(start_time, t, os_cur_time, rust_cur_time, debug)
    IN  IF a.fault # "none"
        THEN [fault |-> a.fault, start_time |-> a.start_time,
              invoked |-> FALSE, instant |-> 0]
        ELSE LET t2   == F64Add(t, duration)
                 diff == from_secs_f64(F64Sub(t2, a.start_time.os))
             IN  IF diff.fault # "none"
                 THEN [fault |-> diff.fault, start_time |-> a.start_time,
                       invoked |-> FALSE, instant |-> 0]
                 ELSE [fault |-> IF f_panics THEN "callback_panic" ELSE "none",
                       start_time |-> a.start_time,
                       invoked |-> TRUE,
                       instant |-> InstantAdd(a.start_time.rust, diff.dur)]

\* a fault boundary that swallows the panic and returns to the run loop
run_callback_exit_swallow(fault) == "return"

\* ios.rs run_callback, lines 101-104: Err(_) => process::abort()
run_callback_exit(fault) == IF fault # "none" THEN "abort" ELSE "return"

\* macos.rs render, the closure given to catch_unwind: the host time of the
\* output timestamp is reinterpreted as an Instant and handed to f
render(host_time, f_panics) ==
    [fault |-> IF f_panics THEN "callback_panic" ELSE "none",
     start_time |-> NoAnchor,
     invoked |-> TRUE,
     instant |-> host_time]

\* macos.rs render, lines 29-31: Ok(o) => o, _ => process::abort()
render_exit(fault) == IF fault # "none" THEN "abort" ELSE "return"

\* ---------------------------------------------------------------- lifecycle

\* macos.rs DisplayLink::is_paused
macos_is_paused == is_paused

\* ios.rs DisplayLink::is_paused: NO != display_link.is_paused()
ios_is_paused == ca_is_paused(link)

\* lib.rs DisplayLink::is_paused
DisplayLink_is_paused ==
    IF platform = "macos" THEN macos_is_paused ELSE ios_is_paused

Event(op, result) == [op |-> op, result |-> result]

\* The trail keeps the most recent TrailLen events.
Logged(ev) ==
    LET all == Append(trail, ev)
    IN  IF Len(all) > TrailLen THEN Tail(all) ELSE all

\* What a facade operation leaves behind for the caller to observe.
Returns(op, result, backend_calls) ==
    /\ trail' = Logged(Event(op, result))
    /\ last_op' = op
    /\ last_result' = result
    /\ calls' = backend_calls
    /\ pre_paused' = DisplayLink_is_paused
    /\ last_ok' = IF result = "Ok" THEN op ELSE last_ok

\* macos_new without the `?` on RawDisplayLink::new()
macos_new_ignores_failure(create_ok) ==
    /\ link' = cv_set_output_callback(IF create_ok THEN cv_new ELSE NoLink)
    /\ cb' = NewCallback
    /\ is_paused' = TRUE
    /\ handle' = "live"
    /\ Returns("new", "Some", <<"create", "set_output_callback">>)
    /\ UNCHANGED class_registered

\* macos.rs DisplayLink::new
macos_new(create_ok) ==
    IF create_ok
    THEN /\ link' = cv_set_output_callback(cv_new)
         /\ cb' = NewCallback
         /\ is_paused' = TRUE
         /\ handle' = "live"
         /\ Returns("new", "Some", <<"create", "set_output_callback">>)
         /\ UNCHANGED class_registered
    ELSE /\ Returns("new", "None", <<"create">>)
         /\ UNCHANGED <<link, cb, is_paused, handle, class_registered>>

\* ios_new without set_paused(YES): the link joins the run loop unpaused
ios_new_unpaused ==
    /\ class_registered' = TRUE
    /\ cb' = NewCallback
    /\ link' = add_to_current(with_target_selector)
    /\ handle' = "live"
    /\ Returns("new", "Some", <<"create", "add_to_run_loop">>)
    /\ UNCHANGED is_paused

\* ios.rs DisplayLink::new
ios_new ==
    /\ class_registered' = TRUE
    /\ cb' = NewCallback
    /\ link' = add_to_current(ca_set_paused(with_target_selector, TRUE))
    /\ handle' = "live"
    /\ Returns("new", "Some", <<"create", "set_paused_yes", "add_to_run_loop">>)
    /\ UNCHANGED is_paused

\* macos_pause that flips the flag and never stops the display link
macos_pause_no_stop ==
    IF is_paused
    THEN /\ Returns("pause", "AlreadyPaused", <<>>)
         /\ UNCHANGED <<link, is_paused>>
    ELSE /\ is_paused' = TRUE
         /\ Returns("pause", "Ok", <<>>)
         /\ UNCHANGED link

\* macos.rs DisplayLink::pause
macos_pause ==
    IF is_paused
    THEN /\ Returns("pause", "AlreadyPaused", <<>>)
         /\ UNCHANGED <<link, is_paused>>
    ELSE /\ link' = cv_stop(link)
         /\ is_paused' = TRUE
         /\ Returns("pause", "Ok", <<"stop">>)

\* ios_pause without the is_paused() test
ios_pause_unchecked ==
    /\ link' = ca_set_paused(link, TRUE)
    /\ Returns("pause", "Ok", <<"set_paused_yes">>)
    /\ UNCHANGED is_paused

\* ios.rs DisplayLink::pause
ios_pause ==
    IF ios_is_paused
    THEN /\ Returns("pause", "AlreadyPaused", <<"is_paused">>)
         /\ UNCHANGED <<link, is_paused>>
    ELSE /\ link' = ca_set_paused(link, TRUE)
         /\ Returns("pause", "Ok", <<"is_paused", "set_paused_yes">>)
         /\ UNCHANGED is_paused

\* macos_resume that starts the link and leaves the local flag set
macos_resume_keeps_flag ==
    IF ~is_paused
    THEN /\ Returns("resume", "AlreadyRunning", <<>>)
         /\ UNCHANGED <<link, is_paused>>
    ELSE /\ link' = cv_start(link)
         /\ Returns("resume", "Ok", <<"start">>)
         /\ UNCHANGED is_paused

\* macos_resume without the is_paused test
macos_resume_unchecked ==
    /\ link' = cv_start(link)
    /\ is_paused' = FALSE
    /\ Returns("resume", "Ok", <<"start">>)

\* macos.rs DisplayLink::resume
macos_resume ==
    IF ~is_paused
    THEN /\ Returns("resume", "AlreadyRunning", <<>>)
         /\ UNCHANGED <<link, is_paused>>
    ELSE /\ link' = cv_start(link)
         /\ is_paused' = FALSE
         /\ Returns("resume", "Ok", <<"start">>)

\* ios_resume that sets the native flag the wrong way round
ios_resume_wrong_flag ==
    IF ~ios_is_paused
    THEN /\ Returns("resume", "AlreadyRunning", <<"is_paused">>)
         /\ UNCHANGED <<link, is_paused>>
    ELSE /\ link' = ca_set_paused(link, TRUE)
         /\ Returns("resume", "Ok", <<"is_paused", "set_paused_yes">>)
         /\ UNCHANGED is_paused

\* ios.rs DisplayLink::resume
ios_resume ==
    IF ~ios_is_paused
    THEN /\ Returns("resume", "AlreadyRunning", <<"is_paused">>)
         /\ UNCHANGED <<link, is_paused>>
    ELSE /\ link' = ca_set_paused(link, FALSE)
         /\ Returns("resume", "Ok", <<"is_paused", "set_paused_no">>)
         /\ UNCHANGED is_paused

\* macos.rs Drop for DisplayLink, then the fields in declaration order:
\* is_paused, func (the boxed closure), display_link
macos_drop ==
    /\ link' = cv_release(IF ~is_paused THEN cv_stop(link) ELSE link)
    /\ cb' = [cb EXCEPT !.alive = FALSE]
    /\ Returns("drop", "unit",
               (IF ~is_paused THEN <<"stop">> ELSE <<>>)
                 \o <<"release_callback", "teardown">>)
    /\ UNCHANGED is_paused

\* ios.rs Drop for DisplayLink: drop_callback(raw_callback), then the
\* display_link field
ios_drop ==
    /\ cb' = [cb EXCEPT !.alive = FALSE]
    /\ link' = ca_release(link)
    /\ Returns("drop", "unit", <<"release_callback", "teardown">>)
    /\ UNCHANGED is_paused

\* ------------------------------------------------------------------ actions

\* lib.rs DisplayLink::new
New ==
    /\ ~aborted /\ handle = "absent"
    /\ \/ platform = "macos" /\ \E create_ok \in BOOLEAN : macos_new(create_ok)
       \/ platform = "ios" /\ ios_new
    /\ UNCHANGED <<conv_vars, multi_vars, platform, debug_build, fired, invoked, last_fire, aborted>>

\* lib.rs DisplayLink::is_paused
IsPaused ==
    /\ ~aborted /\ handle = "live"
    /\ Returns("is_paused", IF DisplayLink_is_paused THEN "true" ELSE "false",
               IF platform = "ios" THEN <<"is_paused">> ELSE <<>>)
    /\ UNCHANGED <<conv_vars, multi_vars, platform, debug_build, handle, is_paused, link, cb,
                   class_registered, fired, invoked, last_fire, aborted>>

\* lib.rs DisplayLink::pause
Pause ==
    /\ ~aborted /\ handle = "live"
    /\ \/ platform = "macos" /\ macos_pause
       \/ platform = "ios" /\ ios_pause
    /\ UNCHANGED <<conv_vars, multi_vars, platform, debug_build, handle, cb, class_registered,
                   fired, invoked, last_fire, aborted>>

\* lib.rs DisplayLink::resume
Resume ==
    /\ ~aborted /\ handle = "live"
    /\ \/ platform = "macos" /\ macos_resume
       \/ platform = "ios" /\ ios_resume
    /\ UNCHANGED <<conv_vars, multi_vars, platform, debug_build, handle, cb, class_registered,
                   fired, invoked, last_fire, aborted>>

\* the owner drops the handle
Drop ==
    /\ ~aborted /\ handle = "live"
    /\ handle' = "dropped"
    /\ \/ platform = "macos" /\ macos_drop
       \/ platform = "ios" /\ ios_drop
    /\ UNCHANGED <<conv_vars, multi_vars, platform, debug_build, class_registered, fired, invoked,
                   last_fire, aborted>>

\* What the backend may report on a firing.
ReportedTimestamps ==
    {F64Fin(900000000), F64Fin(1000000000), F64Fin(2000000000), F64NaN,
     F64Huge(1)}

FrameDurations == {F64Fin(16000000), F64Fin(8000000)}

OsCurrentTimes == {F64Fin(1000000000), F64Fin(1000000010)}

RustCurrentTimes == {5, 500000000}

HostTimes == {100, 200, 300}

\* a trampoline that runs the user callback a second time
Trampoline_retry(inputs, o, exit, uaf) ==
    /\ fired' = fired + 1
    /\ invoked' = invoked + (IF o.invoked THEN 2 ELSE 0)
    /\ cb' = [cb EXCEPT !.start_time = o.start_time]
    /\ aborted' = (exit = "abort")
    /\ last_fire' = [t |-> inputs.t, duration |-> inputs.duration,
                     os_cur_time |-> inputs.os_cur_time,
                     rust_cur_time |-> inputs.rust_cur_time,
                     first |-> ~cb.start_time.set,
                     fault |-> o.fault, invoked |-> o.invoked,
                     instant |-> o.instant,
                     paused |-> DisplayLink_is_paused,
                     uaf |-> uaf, exit |-> exit]
    /\ trail' = Logged(Event("fire", exit))

\* One entry of the trampoline with outcome o; exit is what the fault
\* boundary does with it.  uaf: the callback state had been released.
Trampoline(inputs, o, exit, uaf) ==
    /\ fired' = fired + 1
    /\ invoked' = invoked + (IF o.invoked THEN 1 ELSE 0)
    /\ cb' = [cb EXCEPT !.start_time = o.start_time]
    /\ aborted' = (exit = "abort")
    /\ last_fire' = [t |-> inputs.t, duration |-> inputs.duration,
                     os_cur_time |-> inputs.os_cur_time,
                     rust_cur_time |-> inputs.rust_cur_time,
                     first |-> ~cb.start_time.set,
                     fault |-> o.fault, invoked |-> o.invoked,
                     instant |-> o.instant,
                     paused |-> DisplayLink_is_paused,
                     uaf |-> uaf, exit |-> exit]
    /\ trail' = Logged(Event("fire", exit))

\* The firing reads callback state that was released: the process may crash
\* on the spot, or run on the stale memory.
Crash(inputs) ==
    /\ fired' = fired + 1
    /\ aborted' = TRUE
    /\ last_fire' = [NoFire EXCEPT !.t = inputs.t, !.duration = inputs.duration,
                                   !.os_cur_time = inputs.os_cur_time,
                                   !.rust_cur_time = inputs.rust_cur_time,
                                   !.fault = "crash", !.uaf = TRUE,
                                   !.paused = DisplayLink_is_paused,
                                   !.exit = "abort"]
    /\ trail' = Logged(Event("fire", "abort"))
    /\ UNCHANGED <<invoked, cb>>

\* the run loop sends call: to the holder object (ios)
FireIos ==
    /\ ~aborted /\ platform = "ios"
    /\ LiveRegistrations # {}
    /\ fired < MaxFires
    /\ \E t \in ReportedTimestamps, duration \in FrameDurations,
          os_cur_time \in OsCurrentTimes, rust_cur_time \in RustCurrentTimes,
          f_panics \in BOOLEAN :
         LET inputs == [t |-> t, duration |-> duration,
                        os_cur_time |-> os_cur_time,
                        rust_cur_time |-> rust_cur_time]
             o == run_callback(cb.start_time, t, duration, os_cur_time,
                               rust_cur_time, f_panics, debug_build)
         IN  \/ Trampoline(inputs, o, run_callback_exit(o.fault), ~cb.alive)
             \/ ~cb.alive /\ Crash(inputs)
    /\ UNCHANGED <<conv_vars, multi_vars, platform, debug_build, handle, is_paused, link,
                   class_registered, calls, last_op, last_result, pre_paused,
                   last_ok>>

\* the display link thread calls the output callback (macos)
FireMac ==
    /\ ~aborted /\ platform = "macos"
    /\ LiveRegistrations # {}
    /\ fired < MaxFires
    /\ \E host_time \in HostTimes, duration \in FrameDurations,
          f_panics \in BOOLEAN :
         LET inputs == [t |-> F64Fin(host_time), duration |-> duration,
                        os_cur_time |-> F64Fin(0), rust_cur_time |-> 0]
             o == render(host_time, f_panics)
         IN  Trampoline(inputs, o, render_exit(o.fault), ~cb.alive)
    /\ UNCHANGED <<conv_vars, multi_vars, platform, debug_build, handle, is_paused, link,
                   class_registered, calls, last_op, last_result, pre_paused,
                   last_ok>>

\* the display refreshes while the native timer exists but has no live
\* registration (link paused or stopped): the backend enters no trampoline
RefreshSkipped ==
    /\ ~aborted
    /\ link.created
    /\ LiveRegistrations = {}
    /\ trail' = Logged(Event("refresh", "skipped"))
    /\ UNCHANGED <<conv_vars, multi_vars, platform, debug_build, handle, is_paused, link, cb,
                   class_registered, calls, last_op, last_result, pre_paused,
                   last_ok, fired, invoked, last_fire, aborted>>

\* ------------------------------------------- the duration conversion alone

NoConv == [done |-> FALSE, secs |-> F64Fin(0), res |-> [fault |-> "none", dur |-> NoDuration]]

\* Seconds handed to from_secs_f64: finite values around 0 s, 1 s, 1.5 s and
\* 2 s, -0.001 s, and the values outside the Duration range.
ConvInputs ==
    {F64Fin(base + d) : base \in {0, NANOS_PER_SEC, 1500000000, 2000000000},
                        d \in (0 - ConvSpan)..ConvSpan}
      \cup {F64Fin(0 - 1000000), F64NaN, F64Inf(1), F64Inf(0 - 1),
            F64Huge(1), F64Huge(0 - 1), F64Vast(1), F64Vast(0 - 1)}

\* one call of from_secs_f64
Convert ==
    /\ \E secs \in ConvInputs :
         conv' = [done |-> TRUE, secs |-> secs, res |-> from_secs_f64(secs)]
    /\ UNCHANGED <<handle_vars, multi_vars>>

\* --------------------------------------- several ios handles in one process

Handles == 1..MaxHandles

\* The closure types new::<F> is instantiated for.
ClosureTypes == {"F1", "F2"}

\* No holder object yet.  ftype: the F of the Callback<F> behind _data.
NoHolder == [state |-> "absent", ftype |-> "none", paused |-> FALSE,
             anchored |-> FALSE]

NoMultiFire == [h |-> 0, data |-> 0, own_type |-> "none", as_type |-> "none",
                outcome |-> "none"]

\* ios.rs new::<F>: the one static Once of the generic function runs its
\* closure on the first call only, whatever F that call and the later ones
\* have; the holder's _data points at this handle's Callback<F>.
multi_new(h, F) ==
    /\ holders[h].state = "absent"
    /\ IF once_runs = 0
       THEN class_method' = F /\ once_runs' = 1
       ELSE UNCHANGED <<class_method, once_runs>>
    /\ holders' = [holders EXCEPT ![h] = [state |-> "live", ftype |-> F,
                                          paused |-> TRUE, anchored |-> FALSE]]
    /\ UNCHANGED multi_fire

\* ios.rs run_callback::<F> for the F the class was declared with, sent to
\* the holder of handle h: _data is h's own state, cast to Callback<F>.  With
\* another F than the state was built with the cast is undefined behaviour:
\* the process crashes or runs the first type's closure code on this state.
multi_run_callback(h, outcome) ==
    /\ holders[h].state = "live" /\ ~holders[h].paused
    /\ IF class_method = holders[h].ftype
       THEN outcome = "own_closure"
       ELSE outcome \in {"crash", "other_closure"}
    /\ multi_fire' = [h |-> h, data |-> h, own_type |-> holders[h].ftype,
                      as_type |-> class_method, outcome |-> outcome]
    /\ holders' = [holders EXCEPT ![h].anchored =
                                     holders[h].anchored \/ outcome # "crash"]
    /\ UNCHANGED <<class_method, once_runs>>

MultiCrashed == multi_fire.outcome = "crash"

MultiNew ==
    /\ ~MultiCrashed
    /\ \E h \in Handles, F \in ClosureTypes : multi_new(h, F)
    /\ UNCHANGED <<handle_vars, conv_vars>>

\* ios.rs resume on handle h
MultiResume ==
    /\ ~MultiCrashed
    /\ \E h \in Handles :
         /\ holders[h].state = "live" /\ holders[h].paused
         /\ holders' = [holders EXCEPT ![h].paused = FALSE]
    /\ UNCHANGED <<handle_vars, conv_vars, class_method, once_runs, multi_fire>>

\* ios.rs pause on handle h
MultiPause ==
    /\ ~MultiCrashed
    /\ \E h \in Handles :
         /\ holders[h].state = "live" /\ ~holders[h].paused
         /\ holders' = [holders EXCEPT ![h].paused = TRUE]
    /\ UNCHANGED <<handle_vars, conv_vars, class_method, once_runs, multi_fire>>

\* the run loop sends call: to the holder of one of the running handles
MultiFire ==
    /\ ~MultiCrashed
    /\ \E h \in Handles, outcome \in {"own_closure", "other_closure", "crash"} :
         multi_run_callback(h, outcome)
    /\ UNCHANGED <<handle_vars, conv_vars>>

Init ==
    /\ platform \in {"macos", "ios"}
    /\ debug_build \in BOOLEAN
    /\ handle = "absent"
    /\ is_paused = FALSE
    /\ link = NoLink
    /\ cb = NoCallback
    /\ class_registered = FALSE
    /\ calls = <<>>
    /\ last_op = "none"
    /\ last_result = "none"
    /\ pre_paused = FALSE
    /\ last_ok = "none"
    /\ trail = <<>>
    /\ fired = 0
    /\ invoked = 0
    /\ last_fire = NoFire
    /\ aborted = FALSE
    /\ conv = NoConv
    /\ holders = [h \in Handles |-> NoHolder]
    /\ class_method = "none"
    /\ once_runs = 0
    /\ multi_fire = NoMultiFire

Next ==
    \/ New
    \/ IsPaused
    \/ Pause
    \/ Resume
    \/ Drop
    \/ FireIos
    \/ FireMac
    \/ RefreshSkipped

Spec == Init /\ [][Next]_vars

\* from_secs_f64 applied to single inputs
InitConv == Init /\ platform = "ios" /\ debug_build = FALSE

NextConv == Convert

SpecConv == InitConv /\ [][NextConv]_vars

\* several ios handles alive in one process
InitMulti == Init /\ platform = "ios" /\ debug_build = FALSE

NextMulti ==
    \/ MultiNew
    \/ MultiResume
    \/ MultiPause
    \/ MultiFire

SpecMulti == InitMulti /\ [][NextMulti]_vars

\* ------------------------------------------------------------- properties

TransitionCalls == {"start", "stop", "set_paused_yes", "set_paused_no", "invalidate"}

NoTransitionCall(c) == \A i \in 1..Len(c) : c[i] \notin TransitionCalls

\* C1: a handle returned by new() is paused, and the user callback is not
\* invoked (the trampoline is not even entered) before the first successful
\* resume(), on both backends.
C1_NewIsPaused ==
    /\ (last_op = "new" /\ last_result = "Some" => DisplayLink_is_paused)
    /\ (last_ok = "none" => fired = 0 /\ invoked = 0)

\* C1 witness: an ios handle fresh from new(), its link already on the run
\* loop, reports paused.
C1_Witness ==
    /\ platform = "ios" /\ handle = "live"
    /\ last_op = "new" /\ last_result = "Some"
    /\ link.in_run_loop /\ DisplayLink_is_paused

\* C2: while a live handle is paused no registration can enter the
\* trampoline, while it is running exactly one can, and no firing of a live
\* handle's callback state happened while is_paused() was true.
C2_RegistrationMatchesState ==
    /\ (handle = "live" /\ DisplayLink_is_paused => LiveRegistrations = {})
    /\ (handle = "live" /\ ~DisplayLink_is_paused
          => Cardinality(LiveRegistrations) = 1)
    /\ (fired > 0 /\ ~last_fire.uaf => ~last_fire.paused)

\* C2 witness: a live handle that ran, fired, and was paused again.
C2_Witness ==
    /\ handle = "live" /\ DisplayLink_is_paused
    /\ last_ok = "pause" /\ invoked > 0
    /\ LiveRegistrations = {}

\* C3: pause() on a paused handle returns AlreadyPaused, leaves the handle
\* paused and makes no start, stop or set-paused call on the backend.
C3_PauseWhilePaused ==
    last_op = "pause" /\ pre_paused
      => /\ last_result = "AlreadyPaused"
         /\ DisplayLink_is_paused
         /\ NoTransitionCall(calls)
         /\ LiveRegistrations = {}

\* C3 witness: pause() as the first call on a freshly constructed handle.
C3_Witness ==
    /\ trail = <<Event("new", "Some"), Event("pause", "AlreadyPaused")>>
    /\ last_op = "pause" /\ pre_paused /\ DisplayLink_is_paused

\* C4: resume() on a running handle returns AlreadyRunning, leaves the
\* handle running and makes no start, stop or set-paused call on the backend.
C4_ResumeWhileRunning ==
    last_op = "resume" /\ ~pre_paused
      => /\ last_result = "AlreadyRunning"
         /\ (handle = "live" => ~DisplayLink_is_paused)
         /\ NoTransitionCall(calls)

\* C4 witness: two consecutive resume() calls on a new handle, the second
\* refused.
C4_Witness ==
    /\ trail = <<Event("new", "Some"), Event("resume", "Ok"),
                 Event("resume", "AlreadyRunning")>>
    /\ last_op = "resume" /\ ~pre_paused /\ ~DisplayLink_is_paused

\* C5: pause() from running and resume() from paused return Ok, and
\* is_paused() of a live handle is true exactly when the last successful
\* transition was a pause or none has succeeded yet.
C5_IsPausedTracksLastTransition ==
    /\ (last_op = "pause" /\ ~pre_paused => last_result = "Ok")
    /\ (last_op = "resume" /\ pre_paused => last_result = "Ok")
    /\ (handle = "live"
          => (DisplayLink_is_paused <=> last_ok \in {"none", "pause"}))

\* C5 witness: resume, pause, resume, each Ok, and the handle reports running.
C5_Witness ==
    /\ trail = <<Event("resume", "Ok"), Event("pause", "Ok"),
                 Event("resume", "Ok")>>
    /\ handle = "live" /\ ~DisplayLink_is_paused

\* C6: when a running handle is dropped, a backend stop comes before the
\* release of the callback state and before the backend teardown.
C6_StopBeforeRelease ==
    last_op = "drop" /\ ~pre_paused
      => \E i \in 1..Len(calls) :
            /\ calls[i] \in {"stop", "set_paused_yes", "invalidate"}
            /\ \A j \in 1..Len(calls) :
                 calls[j] \in {"release_callback", "teardown"} => i < j

\* C7: a fault anywhere in the trampoline body aborts the process: the
\* faulted firing never returns to the backend, and afterwards no firing
\* happens and no user callback is invoked.
C7_FaultAborts ==
    /\ [](last_fire.fault # "none" => aborted /\ last_fire.exit = "abort")
    /\ [][aborted => (fired' = fired /\ invoked' = invoked)]_vars

\* C7 witness: the user callback panicked and the process is aborted.
C7_Witness ==
    /\ aborted /\ ~last_fire.uaf
    /\ last_fire.fault = "callback_panic" /\ last_fire.invoked

\* C8 as stated, for every backend: no anchor before the first firing, and
\* an anchor once the callback has been invoked.
C8_AnchorSetOnEveryBackend ==
    /\ (fired = 0 => ~cb.start_time.set)
    /\ (invoked > 0 => cb.start_time.set)

\* C8 amended: on ios the anchor is absent until the first firing, is set by
\* the first firing that gets past the anchor step, to that firing's reported
\* timestamp, and never changes afterwards; on macos no anchor is ever set.
C8_AnchorSetOnce ==
    /\ [](fired = 0 => ~cb.start_time.set)
    /\ [](platform = "ios" /\ invoked > 0 => cb.start_time.set)
    /\ [](platform = "macos" => ~cb.start_time.set)
    /\ [][cb.start_time.set => cb.start_time' = cb.start_time]_vars
    /\ [][~cb.start_time.set /\ cb.start_time'.set
            => last_fire'.first /\ cb.start_time'.os = last_fire'.t]_vars

\* C8 witness: on ios, after a pause and a resume, a later firing with
\* another timestamp was delivered under the anchor of the first firing.
C8_Witness ==
    /\ platform = "ios" /\ handle = "live"
    /\ trail = <<Event("pause", "Ok"), Event("resume", "Ok"),
                 Event("fire", "return")>>
    /\ ~last_fire.first /\ last_fire.invoked
    /\ cb.start_time.set /\ cb.start_time.os # last_fire.t

\* The translation of reported timestamp t and frame duration under anchor a.
Translated(a, t, duration) == a.rust + (t.ns + duration.ns - a.os.ns)

\* C9 as stated, for every backend: the delivered instant is
\* monotonic_reference + (reported_timestamp + frame_duration -
\* native_reference) under the anchor of the callback state.
C9_TranslationOnEveryBackend ==
    last_fire.invoked /\ ~last_fire.uaf
      => /\ cb.start_time.set
         /\ last_fire.instant
              = Translated(cb.start_time, last_fire.t, last_fire.duration)

\* C9 amended: on ios every delivered instant (the first included) is
\* monotonic_reference + (reported_timestamp + frame_duration -
\* native_reference); on macos the delivered instant is the reported host
\* time itself, with no anchor and no frame duration added.
C9_Translation ==
    /\ (platform = "ios" /\ last_fire.invoked /\ ~last_fire.uaf
          => /\ cb.start_time.set
             /\ last_fire.instant
                  = Translated(cb.start_time, last_fire.t, last_fire.duration))
    /\ (platform = "macos" /\ last_fire.invoked
          => last_fire.instant = last_fire.t.ns)

\* C9 witness: a later ios firing delivered an instant more than a second
\* past the anchor's monotonic reference.
C9_Witness ==
    /\ platform = "ios" /\ last_fire.invoked /\ ~last_fire.first
    /\ ~last_fire.uaf
    /\ last_fire.instant > cb.start_time.rust + NANOS_PER_SEC

\* C10 as stated: the first firing anchors at (reported_timestamp, now) and
\* delivers now + frame_duration.
C10_FirstFiringAnchorsAtNow ==
    platform = "ios" /\ last_fire.first /\ last_fire.invoked /\ ~last_fire.uaf
      => /\ cb.start_time = SomeAnchor(last_fire.t, last_fire.rust_cur_time)
         /\ last_fire.instant = last_fire.rust_cur_time + last_fire.duration.ns

\* C10 amended: the first firing anchors at (reported_timestamp,
\* now - (os_current_time - reported_timestamp)) and delivers
\* now - (os_current_time - reported_timestamp) + frame_duration; it
\* delivers only when os_current_time is not before reported_timestamp.
C10_FirstFiring ==
    platform = "ios" /\ last_fire.first /\ last_fire.invoked /\ ~last_fire.uaf
      => /\ last_fire.os_cur_time.ns >= last_fire.t.ns
         /\ cb.start_time
              = SomeAnchor(last_fire.t,
                           last_fire.rust_cur_time
                             - (last_fire.os_cur_time.ns - last_fire.t.ns))
         /\ last_fire.instant
              = last_fire.rust_cur_time
                  - (last_fire.os_cur_time.ns - last_fire.t.ns)
                  + last_fire.duration.ns

\* C10 witness: a first firing reported 1.0 s with a 16 ms frame while the
\* native clock already read 10 ns more.
C10_Witness ==
    /\ platform = "ios" /\ last_fire.first /\ last_fire.invoked
    /\ ~last_fire.uaf
    /\ last_fire.t = F64Fin(1000000000)
    /\ last_fire.duration = F64Fin(16000000)
    /\ last_fire.os_cur_time = F64Fin(1000000010)
    /\ last_fire.instant = last_fire.rust_cur_time - 10 + 16000000

\* C11: the first firing tolerates a reported timestamp later than the
\* backend's current native time: it neither asserts nor aborts, the anchor
\* is offset by |os_current_time - reported_timestamp| towards the larger
\* operand, and the user callback is invoked.
C11_ToleratesEitherOrdering ==
    (/\ platform = "ios" /\ fired > 0
     /\ last_fire.first /\ ~last_fire.uaf
     /\ last_fire.t.cls = "fin" /\ last_fire.os_cur_time.cls = "fin"
     /\ last_fire.t.ns > last_fire.os_cur_time.ns
     /\ last_fire.fault # "callback_panic")
      => /\ last_fire.exit = "return"
         /\ last_fire.invoked
         /\ cb.start_time
              = SomeAnchor(last_fire.t,
                           last_fire.rust_cur_time
                             + (last_fire.t.ns - last_fire.os_cur_time.ns))

\* What new, is_paused, pause, resume and a drop can hand to their caller.
FacadeResults ==
    {"none", "Some", "None", "true", "false", "Ok", "AlreadyPaused",
     "AlreadyRunning", "unit"}

TimeFaults == {"underflow", "non_finite", "overflow"}

\* C12: a firing whose derived duration is negative, non-finite or out of
\* range aborts the process without invoking the user callback, in
\* particular a firing with reported_timestamp + frame_duration before the
\* anchor's native reference; no facade call ever returns such a fault.
C12_TimeFaultAborts ==
    /\ (last_fire.fault \in TimeFaults
          => aborted /\ last_fire.exit = "abort" /\ ~last_fire.invoked)
    /\ ((/\ platform = "ios" /\ fired > 0
         /\ ~last_fire.first /\ ~last_fire.uaf
         /\ last_fire.t.cls = "fin" /\ last_fire.duration.cls = "fin"
         /\ last_fire.t.ns + last_fire.duration.ns < cb.start_time.os.ns)
          => /\ last_fire.fault = "underflow"
             /\ aborted /\ ~last_fire.invoked)
    /\ ((/\ platform = "ios" /\ fired > 0 /\ ~last_fire.uaf
         /\ last_fire.t.cls \in {"nan", "inf", "huge"})
          => aborted /\ ~last_fire.invoked)
    /\ last_result \in FacadeResults

\* C12 witness: a later firing reported a time before the anchor and the
\* process aborted with the callback not invoked for it.
C12_Witness ==
    /\ platform = "ios" /\ aborted
    /\ ~last_fire.first /\ ~last_fire.uaf
    /\ cb.start_time.set
    /\ last_fire.t.ns + last_fire.duration.ns < cb.start_time.os.ns
    /\ last_fire.fault = "underflow" /\ ~last_fire.invoked
    /\ invoked > 0

\* C13: every firing of a running link that ends without a fault invokes
\* the user callback exactly once, within that firing; the callback is
\* invoked in no other step, so a refresh that happens while the handle is
\* paused is delivered neither then nor by a later resume().
C13_ExactlyOncePerFiring ==
    /\ [][fired' = fired + 1 /\ last_fire'.fault = "none"
            => invoked' = invoked + 1]_vars
    /\ [][invoked' # invoked
            => /\ fired' = fired + 1
               /\ invoked' = invoked + 1
               /\ LiveRegistrations # {}]_vars
    /\ [][(LiveRegistrations = {} \/ (handle = "live" /\ DisplayLink_is_paused))
            => fired' = fired /\ invoked' = invoked]_vars

\* C13 witness: a refresh was skipped while paused; after resume() one
\* firing ran and the callback has been invoked exactly once.
C13_Witness ==
    /\ trail = <<Event("refresh", "skipped"), Event("resume", "Ok"),
                 Event("fire", "return")>>
    /\ handle = "live" /\ fired = 1 /\ invoked = 1
    /\ last_fire.fault = "none"

\* The facade's contract as a deterministic machine over one bit, the
\* paused state: what an operation returns, and the state it leaves.
ContractResult(op, paused_before) ==
    CASE op = "pause" -> IF paused_before THEN "AlreadyPaused" ELSE "Ok"
      [] op = "resume" -> IF paused_before THEN "Ok" ELSE "AlreadyRunning"
      [] op = "is_paused" -> IF paused_before THEN "true" ELSE "false"
      [] OTHER -> "Some"

ContractPaused(op, paused_before) ==
    CASE op = "pause" -> TRUE
      [] op = "resume" -> FALSE
      [] op = "is_paused" -> paused_before
      [] OTHER -> TRUE

\* C14: the start/stop strategy (macos) and the native-flag strategy (ios)
\* are observationally equivalent: whichever is built, every result of
\* new/pause/resume/is_paused on a constructed handle and the paused state
\* it leaves are those of the one deterministic contract machine, and a
\* firing is possible exactly in the states where the handle is running.
C14_SameContract ==
    /\ (last_op \in {"pause", "resume", "is_paused"}
          => last_result = ContractResult(last_op, pre_paused))
    /\ (last_op = "new" /\ last_result = "Some" => DisplayLink_is_paused)
    /\ (last_op \in {"pause", "resume", "is_paused"} /\ handle = "live"
          => DisplayLink_is_paused = ContractPaused(last_op, pre_paused))
    /\ (handle = "live"
          => (LiveRegistrations # {} <=> ~DisplayLink_is_paused))

\* C14 witness: on the native-flag strategy a refused pause, a resume and an
\* is_paused() query returned what the contract machine returns.
C14_Witness ==
    /\ platform = "ios" /\ handle = "live"
    /\ trail = <<Event("pause", "AlreadyPaused"), Event("resume", "Ok"),
                 Event("is_paused", "false")>>
    /\ LiveRegistrations # {}

\* C14 witness on the other strategy, to the same results.
C14_WitnessMac ==
    /\ platform = "macos" /\ handle = "live"
    /\ trail = <<Event("pause", "AlreadyPaused"), Event("resume", "Ok"),
                 Event("is_paused", "false")>>
    /\ LiveRegistrations # {}

C16_NoFiringOnReleasedState ==
    fired > 0 => ~last_fire.uaf

\* The backend's start and stop primitives: CVDisplayLink start/stop on macos,
\* the native paused flag cleared/set on ios.
StartCalls == {"start", "set_paused_no"}

StopCalls == {"stop", "set_paused_yes"}

CountCalls(c, kinds) == Cardinality({i \in 1..Len(c) : c[i] \in kinds})

\* Backend start/stop calls an operation on a constructed handle has to
\* issue: one start for a successful resume, one stop for a successful pause
\* and for a drop while Running, none otherwise.
StartsDue == IF last_op = "resume" /\ last_result = "Ok" THEN 1 ELSE 0

StopsDue ==
    IF \/ last_op = "pause" /\ last_result = "Ok"
       \/ last_op = "drop" /\ ~pre_paused
    THEN 1 ELSE 0

\* C17: backend start/stop calls track successful transitions exactly: every
\* operation on a constructed handle issues one start iff it is a successful
\* resume, one stop iff it is a successful pause or a drop while Running, and
\* a drop while Paused issues no stop.
C17_CallsTrackTransitions ==
    last_op \in {"pause", "resume", "is_paused", "drop"}
      => /\ CountCalls(calls, StartCalls) = StartsDue
         /\ CountCalls(calls, StopCalls) = StopsDue

\* The same accounting for the macos strategy alone.
C17_MacosCallsTrackTransitions ==
    platform = "macos" => C17_CallsTrackTransitions

\* C18 as stated: every negative input is rejected with an underflow fault,
\* every non-finite input with a non-finite fault, every input whose
\* nanosecond count is at least 2^64 * 10^9 with an overflow fault; every
\* other input gives whole seconds = floor(nanos / 10^9) and nanoseconds =
\* nanos mod 10^9, below 10^9; 1.5 s gives 1 s and 500,000,000 ns.
C18_ConversionAsStated ==
    conv.done =>
      /\ (conv.secs.cls \in {"inf", "nan"} => conv.res.fault = "non_finite")
      /\ (conv.secs.cls \in {"fin", "huge", "vast"} /\ conv.secs.ns < 0
            => conv.res.fault = "underflow")
      /\ (conv.secs.cls \in {"huge", "vast"} /\ conv.secs.ns > 0
            => conv.res.fault = "overflow")
      /\ (conv.secs.cls = "fin" /\ conv.secs.ns >= 0
            => /\ conv.res.fault = "none"
               /\ conv.res.dur.secs >= 0
               /\ conv.res.dur.nanos >= 0 /\ conv.res.dur.nanos < NANOS_PER_SEC
               /\ conv.res.dur.secs * NANOS_PER_SEC + conv.res.dur.nanos = conv.secs.ns)
      /\ (conv.secs = F64Fin(1500000000)
            => conv.res.dur = [secs |-> 1, nanos |-> 500000000])

\* C18: the conversion rejects with a non-finite fault every input whose
\* product with 10^9 is not finite: NaN, the infinities, and the finite inputs
\* of either sign too large for the product; of the others it rejects with an
\* overflow fault those of a nanosecond count of at least 2^64 * 10^9 and
\* with an underflow fault the negative ones; every other input gives whole
\* seconds = floor(nanos / 10^9) and nanoseconds = nanos mod 10^9, below
\* 10^9; 1.5 s gives 1 s and 500,000,000 ns.
C18_Conversion ==
    conv.done =>
      /\ (conv.secs.cls \in {"inf", "nan", "vast"} => conv.res.fault = "non_finite")
      /\ (conv.secs.cls \in {"fin", "huge"} /\ conv.secs.ns < 0
            => conv.res.fault = "underflow")
      /\ (conv.secs.cls = "huge" /\ conv.secs.ns > 0
            => conv.res.fault = "overflow")
      /\ (conv.secs.cls = "fin" /\ conv.secs.ns >= 0
            => /\ conv.res.fault = "none"
               /\ conv.res.dur.secs >= 0
               /\ conv.res.dur.nanos >= 0 /\ conv.res.dur.nanos < NANOS_PER_SEC
               /\ conv.res.dur.secs * NANOS_PER_SEC + conv.res.dur.nanos = conv.secs.ns)
      /\ (conv.secs = F64Fin(1500000000)
            => conv.res.dur = [secs |-> 1, nanos |-> 500000000])

\* C18 witness: a negative finite input too large for the product was
\* converted and rejected as non-finite.
C18_Witness ==
    /\ conv.done
    /\ conv.secs = F64Vast(0 - 1)
    /\ conv.res.fault = "non_finite"

\* C19: with several handles alive, the trampoline class is registered
\* exactly once, and every firing for a handle reads that handle's own
\* callback state, interprets it with that handle's own closure type and
\* invokes the closure given at that handle's construction.
C19_OwnStateOwnType ==
    /\ once_runs <= 1
    /\ (\E h \in Handles : holders[h].state = "live") => once_runs = 1
    /\ multi_fire.h # 0
         => /\ multi_fire.data = multi_fire.h
            /\ multi_fire.as_type = multi_fire.own_type
            /\ multi_fire.outcome = "own_closure"

====
